---- MODULE Spec2Model ----
(***************************************************************************)
(* Hybrid dataset factory: the background Dataset (dataset.py), the        *)
(* DatasetFactory orchestration and per-sample generation                  *)
(* (dataset_factory.py).                                                   *)
(*                                                                         *)
(* Each class is modelled from its own code and the calls between them     *)
(* are bound to the callee's parameters.                                   *)
(***************************************************************************)
EXTENDS Integers, Sequences, FiniteSets, TLC

\* ------------------------------------------------------------------------
\* Bounds of the model
\* ------------------------------------------------------------------------
MaxCount == 3

MaxThreads == 2

MaxSavers == 2

MaxCoord == 4

MaxDim == 3
MaxVariance == 12
MaxThreshold == 10
MaxAmount == 100
MaxTotal == 50
MaxId == 30
MaxBoxes == 2
MaxBoxCoord == 2
MaxLines == 2
MaxField == 3
MaxTick == 4

\* ------------------------------------------------------------------------
\* The file system seen by Dataset.load
\* ------------------------------------------------------------------------
\* Python's None as stored in Dataset.width / Dataset.height.
None == -1

\* Directory entries a background directory may hold: two images with an
\* annotation row, one image without, the annotations file, a sub-directory.
Entries == {"a.png", "b.png", "u.png", "annotations.csv", "sub"}

\* The entries used when the run follows the load.
RunEntries == {"a.png", "u.png", "annotations.csv"}

\* os.path.isfile(os.path.join(self.path, name)) for an entry of the listing.
isfile(name) == name # "sub"

\* os.path.join(self.path, name): a path is the pair (directory, name).
join(path, name) == <<path, name>>

\* args.dataset, the directory of the background dataset.
dataset_path == "dataset"

\* os.path.join(args.dataset, 'annotations.csv'), as passed to load.
annotations_path == join(dataset_path, "annotations.csv")

\* Image.open(full_path).size
image_size(name) == IF name = "b.png" THEN <<3, 2>> ELSE <<2, 2>>

\* The lines of annotations.csv: a header, then one row per annotated frame.
\* A line is the list of its comma-separated fields: the frame name, then
\* the numeric fields.
annotations_file ==
    << [frame |-> "frame", values |-> <<>>],
       [frame |-> "a.png", values |-> <<1, 2, 3, 0, 0, 0, 1>>],
       [frame |-> "b.png", values |-> <<4, 5, 6, 0, 0, 1, 0>>] >>

\* BackgroundAnnotations with the orientation cut one field later.
BackgroundAnnotationsFromFifth(values) ==
    [translation |-> SubSeq(values, 1, 3),
     orientation |-> SubSeq(values, 5, Len(values))]

\* BackgroundAnnotations(Vector3(items[1:4]), Quaternion(items[4::]))
BackgroundAnnotations(values) ==
    [translation |-> SubSeq(values, 1, 3),
     orientation |-> SubSeq(values, 4, Len(values))]

\* Dataset.parse_annotations once the file is open: the first line is
\* discarded, every later line sets annotations[items[0]].
parse_annotations(lines) ==
    LET rows  == SubSeq(lines, 2, Len(lines))
        names == {rows[k].frame : k \in 1..Len(rows)}
        last(n) == CHOOSE k \in 1..Len(rows) :
                      /\ rows[k].frame = n
                      /\ \A j \in (k+1)..Len(rows) : rows[j].frame # n
    IN  [n \in names |-> BackgroundAnnotations(rows[last(n)].values)]

\* BackgroundImage(image_path, annotations)
BackgroundImage(image_path, annotations) ==
    [file |-> image_path, annotations |-> annotations]

\* random.shuffle(os.listdir(path)): any order of the directory's entries.
Shuffles(S) ==
    {s \in [1..Cardinality(S) -> S] : \A i, j \in 1..Cardinality(S) : s[i] = s[j] => i = j}

\* The test of lines 90 and 97: a regular file other than the annotations file.
Usable(file, ann_path) ==
    isfile(file) /\ join(dataset_path, file) # ann_path

\* The test of line 104 taken as true for every staged entry.
UnsetAlways(w, h) == TRUE

\* "not self.width and not self.height"
Unset(w, h) == (w = None \/ w = 0) /\ (h = None \/ h = 0)

VARIABLES
    listing,                \* the entries of the background directory
    isdir,                  \* os.path.isdir(path) for the background dataset
    count,                  \* args.nb_images
    lpc,                    \* where Dataset.load stands
    files,                  \* load's local list
    li,                     \* load's position in "for file in files"
    not_found,              \* load's local counter
    choice,                 \* load's local: the entry random.choice returned
    annotations,            \* load's local dict
    background_data,        \* background_dataset.data (the SourceQueue)
    background_unfinished,  \* its unfinished_tasks
    width, height,          \* background_dataset.width / .height
    error,                  \* the exception that ended the program, if any
    fpc,                    \* where DatasetFactory.__init__ stands
    exit_status,            \* the status of sys.exit, None while running
    base_width, base_height,\* DatasetFactory.base_width / .base_height
    coordinates,            \* scale_coordinates: the list it is given
    target_coordinates,     \* scale_coordinates: output.size
    given,                  \* the value of coordinates at the call
    scpc,                   \* where the call of scale_coordinates stands
    nb_threads,             \* args.threads
    strategy,               \* the method called: run or run_multi_threaded
    mpc,                    \* where the main thread stands in that method
    i,                      \* run's loop index
    args,                   \* run_multi_threaded's zipped argument list
    next,                   \* the next item of args the pool hands out
    done_calls,             \* the pool's calls of generate that returned
    percentage,             \* the visibility percentage printed
    gpc,                    \* per generating thread: where generate stands
    gindex,                 \* ... its index argument
    gprojector,             \* ... its projector argument
    gread,                  \* ... the visible_gates it read for "+= 1"
    gbboxes,                \* per call: len(bboxes), once the renderer returned
    gimage,                 \* per call: what "projection" holds
    visible_gates,          \* DatasetFactory.visible_gates
    seen_visible,           \* renderer results with a non-empty bboxes list
    generated_data,         \* generated_dataset.data (the SampleQueue)
    generated_unfinished,   \* its unfinished_tasks
    put_count,              \* per item: how often it was put on the SampleQueue
    saved,                  \* per id: the times <id>.png was written
    spc,                    \* where the save thread stands
    nb_savers,              \* save's nb_threads argument
    started,                \* the workers save has started
    wpc,                    \* per worker: where _save_one stands
    witem,                  \* per worker: its annotatedImage
    variance_of_laplacian,  \* get_blur_amount: the variance measured
    max_blur_amount,        \* DatasetFactory.max_blur_amount (args.blur_threshold)
    blur_amount,            \* get_blur_amount: the value returned, a fraction
    amount,                 \* apply_motion_blur: its amount, in hundredths
    no_blur,                \* DatasetFactory.no_blur
    blurred,                \* apply_motion_blur: the value returned
    bpc,                    \* where the two calls stand
    rvisible,               \* report line alone: self.visible_gates
    rcount,                 \* report line alone: self.count
    rpercentage,            \* report line alone: the percentage printed
    rpc,                    \* report line alone: where it stands
    save_dest,              \* _save_one alone: self.path, a string
    save_id,                \* _save_one alone: annotatedImage.id
    save_written,           \* _save_one alone: the path given to image.save
    svpc,                   \* _save_one alone: where it stands
    given_bboxes,           \* box loop alone: the boxes as the renderer made them
    bboxes,                 \* box loop alone: annotations['bboxes']
    key_order,              \* box loop alone: the order of a box's keys
    scaled_bboxes,          \* box loop alone: the list built by the loop
    bxpc,                   \* box loop alone: where it stands
    file_rows,              \* parse_annotations alone: the rows the file was written from
    file_lines,             \* parse_annotations alone: the lines of the file
    parsed,                 \* parse_annotations alone: the mapping returned
    papc,                   \* parse_annotations alone: where it stands
    images,                 \* _write_csv alone: self.images, in order
    poses,                  \* _write_csv alone: self.annotations, in order
    csv,                    \* _write_csv alone: the rows written
    csv_error,              \* _write_csv alone: the exception raised, if any
    cvpc                    \* _write_csv alone: where it stands

loadVars == <<listing, isdir, count, lpc, files, li, not_found, choice,
              annotations,
              background_data, background_unfinished, width, height, error>>

initVars == <<fpc, exit_status>>

scaleVars == <<base_width, base_height, coordinates, target_coordinates,
               given, scpc>>

mainVars == <<nb_threads, strategy, mpc, i, args, next, done_calls, percentage>>

genVars == <<gpc, gindex, gprojector, gread, gbboxes, gimage>>

gateVars == <<visible_gates, seen_visible>>

outVars == <<generated_data, generated_unfinished, put_count, saved>>

saveVars == <<spc, nb_savers, started, wpc, witem>>

pipeVars == <<mainVars, genVars, gateVars, outVars, saveVars>>

blurVars == <<variance_of_laplacian, max_blur_amount, blur_amount, amount,
              no_blur, blurred, bpc>>

reportVars == <<rvisible, rcount, rpercentage, rpc>>

\* The state of the functions that are exercised on their own.
pathVars == <<save_dest, save_id, save_written, svpc>>

boxVars == <<given_bboxes, bboxes, key_order, scaled_bboxes, bxpc>>

parseVars == <<file_rows, file_lines, parsed, papc>>

csvVars == <<images, poses, csv, csv_error, cvpc>>

pureVars == <<blurVars, reportVars, pathVars, boxVars, parseVars, csvVars>>

vars == <<loadVars, initVars, scaleVars, pipeVars, pureVars>>

\* parse_annotations is not exercised on its own.
ParseIdle ==
    /\ file_rows = <<>>
    /\ file_lines = <<>>
    /\ parsed = <<>>
    /\ papc = "idle"

\* _write_csv is not exercised on its own.
CsvIdle ==
    /\ images = <<>>
    /\ poses = <<>>
    /\ csv = <<>>
    /\ csv_error = None
    /\ cvpc = "idle"

\* The box loop of generate is not exercised on its own.
BoxIdle ==
    /\ given_bboxes = <<>>
    /\ bboxes = <<>>
    /\ key_order = <<>>
    /\ scaled_bboxes = <<>>
    /\ bxpc = "idle"

\* The path of _save_one is not exercised on its own.
PathIdle ==
    /\ save_dest = <<>>
    /\ save_id = 0
    /\ save_written = <<>>
    /\ svpc = "idle"

\* The report line is not exercised on its own.
ReportIdle ==
    /\ rvisible = 0
    /\ rcount = 1
    /\ rpercentage = None
    /\ rpc = "idle"

\* No call of get_blur_amount or apply_motion_blur is under way.
BlurIdle ==
    /\ variance_of_laplacian = 0
    /\ max_blur_amount = 1
    /\ blur_amount = <<>>
    /\ amount = 0
    /\ no_blur = FALSE
    /\ blurred = <<>>
    /\ bpc = "idle"

\* No call of scale_coordinates is under way.
ScaleIdle ==
    /\ base_width = None
    /\ base_height = None
    /\ coordinates = <<>>
    /\ target_coordinates = <<>>
    /\ given = <<>>
    /\ scpc = "idle"

GenThreads == 1..MaxThreads

Savers == 1..MaxSavers

Ids == 0..(MaxCount - 1)

\* What the SampleQueue carries: sample ids and the sentinel.
Items == Ids \cup {None}

\* Neither run nor run_multi_threaded has been called.
PipeIdle ==
    /\ strategy = "none"
    /\ mpc = "idle"
    /\ i = 0
    /\ args = <<>>
    /\ next = 1
    /\ done_calls = 0
    /\ percentage = None
    /\ gpc = [g \in GenThreads |-> "idle"]
    /\ gindex = [g \in GenThreads |-> None]
    /\ gprojector = [g \in GenThreads |-> None]
    /\ gread = [g \in GenThreads |-> None]
    /\ gbboxes = [g \in GenThreads |-> None]
    /\ gimage = [g \in GenThreads |-> <<>>]
    /\ visible_gates = None
    /\ seen_visible = 0
    /\ generated_data = <<>>
    /\ generated_unfinished = 0
    /\ put_count = [id \in Items |-> 0]
    /\ saved = [id \in Ids |-> 0]
    /\ spc = "unstarted"
    /\ nb_savers = 0
    /\ started = 0
    /\ wpc = [w \in Savers |-> "unstarted"]
    /\ witem = [w \in Savers |-> None]

\* Dataset(path) is about to be constructed on a directory with the given
\* entries, load(count, annotations_path) to be called on it after.
InitOver(universe) ==
    /\ listing \in SUBSET universe
    /\ isdir = TRUE
    /\ count \in 0..MaxCount
    /\ lpc = "init"
    /\ files = <<>>
    /\ li = 0
    /\ not_found = 0
    /\ choice = "none"
    /\ annotations = <<>>
    /\ background_data = None
    /\ background_unfinished = 0
    /\ width = None
    /\ height = None
    /\ error = "none"
    /\ fpc = "load"
    /\ exit_status = None

\* Dataset(path) is about to be constructed on a path that is no directory.
InitNotDirectory ==
    /\ listing = {}
    /\ isdir = FALSE
    /\ count \in 0..MaxCount
    /\ lpc = "init"
    /\ files = <<>>
    /\ li = 0
    /\ not_found = 0
    /\ choice = "none"
    /\ annotations = <<>>
    /\ background_data = None
    /\ background_unfinished = 0
    /\ width = None
    /\ height = None
    /\ error = "none"
    /\ fpc = "load"
    /\ exit_status = None

\* dataset.py lines 59-65: Dataset.__init__ raises on a path that is no
\* directory, before any attribute is set; otherwise it sets path, width,
\* height and the queue.
DatasetInit ==
    /\ lpc = "init"
    /\ IF isdir
       THEN /\ lpc' = "listdir"
            /\ width' = None
            /\ height' = None
            /\ background_data' = <<>>
            /\ UNCHANGED error
       ELSE /\ lpc' = "raised"
            /\ error' = "Dataset directory not found"
            /\ UNCHANGED <<width, height, background_data>>
    /\ UNCHANGED <<listing, isdir, choice, count, files, li, not_found, annotations,
                   background_unfinished, initVars, scaleVars, pipeVars,
                   pureVars>>

\* Lines 84-85: files = os.listdir(self.path); random.shuffle(files)
LoadList ==
    /\ lpc = "listdir"
    /\ \E s \in Shuffles(listing) : files' = s
    /\ lpc' = "sample"
    /\ UNCHANGED <<listing, isdir, choice, count, li, not_found, annotations, background_data,
                   background_unfinished, width, height, error, initVars,
                   scaleVars, pipeVars, pureVars>>

\* Lines 87-91: one turn of the sampling loop. random.choice of an empty
\* list raises IndexError.
LoadSample ==
    /\ lpc = "sample"
    /\ count >= Len(files)
    /\ IF files = <<>>
       THEN /\ lpc' = "raised"
            /\ error' = "IndexError"
            /\ UNCHANGED files
       ELSE /\ \E k \in 1..Len(files) :
                 files' = IF Usable(files[k], annotations_path)
                          THEN Append(files, files[k])
                          ELSE files
            /\ UNCHANGED <<lpc, error>>
    /\ UNCHANGED <<listing, isdir, choice, count, li, not_found, annotations, background_data,
                   background_unfinished, width, height, initVars, scaleVars, pipeVars,
                   pureVars>>

\* Lines 93-94 (and 68-69): the loop is left, not_found is reset and the
\* annotations are parsed; a missing annotations file raises.
LoadParse ==
    /\ lpc = "sample"
    /\ count < Len(files)
    /\ not_found' = 0
    /\ IF "annotations.csv" \in listing
       THEN /\ annotations' = parse_annotations(annotations_file)
            /\ lpc' = "stage"
            /\ li' = 1
            /\ UNCHANGED error
       ELSE /\ lpc' = "raised"
            /\ error' = "Annotations file not found"
            /\ UNCHANGED <<annotations, li>>
    /\ UNCHANGED <<listing, isdir, choice, count, files, background_data,
                   background_unfinished, width, height, initVars, scaleVars, pipeVars,
                   pureVars>>

\* Lines 95-106: one turn of "for file in files".
LoadStage ==
    /\ lpc = "stage"
    /\ li <= Len(files)
    /\ LET file == files[li]
           full_path == join(dataset_path, file)
       IN  IF Usable(file, annotations_path)
           THEN IF file \notin DOMAIN annotations
                THEN /\ not_found' = not_found + 1
                     /\ UNCHANGED <<background_data, width, height>>
                ELSE /\ background_data' =
                            Append(background_data,
                                   BackgroundImage(full_path, annotations[file]))
                     /\ IF Unset(width, height)
                        THEN /\ width' = image_size(file)[1]
                             /\ height' = image_size(file)[2]
                        ELSE UNCHANGED <<width, height>>
                     /\ UNCHANGED not_found
           ELSE UNCHANGED <<not_found, background_data, width, height>>
    /\ li' = li + 1
    \* put() followed at once by task_done(): unfinished_tasks is back to 0
    /\ UNCHANGED <<listing, isdir, choice, count, lpc, files, annotations,
                   background_unfinished, error, initVars, scaleVars, pipeVars,
                   pureVars>>

\* Line 108: self.data.join() returns once unfinished_tasks is 0.
LoadJoin ==
    /\ lpc = "stage"
    /\ li > Len(files)
    /\ background_unfinished = 0
    /\ lpc' = "report"
    /\ UNCHANGED <<listing, isdir, choice, count, files, li, not_found, annotations,
                   background_data, background_unfinished, width, height,
                   error, initVars, scaleVars, pipeVars, pureVars>>

\* Line 109: the count is printed and load returns (None); its locals die.
LoadReturn ==
    /\ lpc = "report"
    /\ lpc' = "returned"
    /\ files' = <<>>
    /\ li' = 0
    /\ not_found' = 0
    /\ annotations' = <<>>
    /\ UNCHANGED <<listing, isdir, choice, count, background_data, background_unfinished,
                   width, height, error, initVars, scaleVars, pipeVars,
                   pureVars>>

\* The value load returns: the function has no return statement.
load_result == None

\* Python truth of a returned value.
Truthy(v) == v # None /\ v # 0

\* dataset_factory.py lines 80-85: the test on load's return value.
FactoryCheckLoad ==
    /\ fpc = "load"
    /\ lpc = "returned"
    /\ IF ~ Truthy(load_result)
       THEN /\ fpc' = "exit"
            /\ exit_status' = 1
       ELSE /\ fpc' = "constructed"
            /\ UNCHANGED exit_status
    /\ UNCHANGED <<loadVars, scaleVars, pipeVars, pureVars>>

\* An exception raised by load is not caught by __init__: the interpreter
\* prints the traceback and the process ends with status 1.
FactoryUncaught ==
    /\ fpc = "load"
    /\ lpc = "raised"
    /\ fpc' = "traceback"
    /\ exit_status' = 1
    /\ UNCHANGED <<loadVars, scaleVars, pipeVars, pureVars>>

InitLoad ==
    /\ InitOver(Entries) \/ InitNotDirectory
    /\ ScaleIdle
    /\ BlurIdle
    /\ ReportIdle
    /\ PathIdle
    /\ BoxIdle
    /\ ParseIdle
    /\ CsvIdle
    /\ PipeIdle
    /\ nb_threads = 1

NextLoad ==
    \/ DatasetInit
    \/ LoadList
    \/ LoadSample
    \/ LoadParse
    \/ LoadStage
    \/ LoadJoin
    \/ LoadReturn
    \/ FactoryCheckLoad
    \/ FactoryUncaught

SpecLoad == InitLoad /\ [][NextLoad]_vars

\* ------------------------------------------------------------------------
\* Dataset.load with the turns of its sampling loop taken apart
\* ------------------------------------------------------------------------
\* Line 88 with the entry e returned: choice = random.choice(files).
LoadChoose(e) ==
    /\ lpc = "sample"
    /\ count >= Len(files)
    /\ \E k \in 1..Len(files) : files[k] = e
    /\ lpc' = "chosen"
    /\ choice' = e
    /\ UNCHANGED <<listing, isdir, count, files, li, not_found, annotations,
                   background_data, background_unfinished, width, height,
                   error, initVars, scaleVars, pipeVars, pureVars>>

\* Line 88 on an empty list: random.choice raises IndexError.
LoadChooseEmpty ==
    /\ lpc = "sample"
    /\ count >= Len(files)
    /\ files = <<>>
    /\ lpc' = "raised"
    /\ error' = "IndexError"
    /\ UNCHANGED <<listing, isdir, count, files, li, not_found, choice,
                   annotations, background_data, background_unfinished, width,
                   height, initVars, scaleVars, pipeVars, pureVars>>

\* Lines 89-91: the chosen entry is appended when it is a regular file other
\* than the annotations file, and the loop test of line 87 is next.
LoadAppend ==
    /\ lpc = "chosen"
    /\ files' = IF Usable(choice, annotations_path)
                THEN Append(files, choice)
                ELSE files
    /\ lpc' = "sample"
    /\ UNCHANGED <<listing, isdir, count, li, not_found, choice, annotations,
                   background_data, background_unfinished, width, height,
                   error, initVars, scaleVars, pipeVars, pureVars>>

\* load is about to be called on a Dataset that has been constructed.
InitLoadCalled ==
    /\ listing \in SUBSET Entries
    /\ isdir = TRUE
    /\ count \in 0..MaxCount
    /\ lpc = "listdir"
    /\ files = <<>>
    /\ li = 0
    /\ not_found = 0
    /\ choice = "none"
    /\ annotations = <<>>
    /\ background_data = <<>>
    /\ background_unfinished = 0
    /\ width = None
    /\ height = None
    /\ error = "none"
    /\ fpc = "load"
    /\ exit_status = None
    /\ ScaleIdle
    /\ BlurIdle
    /\ ReportIdle
    /\ PathIdle
    /\ BoxIdle
    /\ ParseIdle
    /\ CsvIdle
    /\ PipeIdle
    /\ nb_threads = 1

NextLoadTurns ==
    \/ LoadList
    \/ \E e \in Entries : LoadChoose(e)
    \/ LoadChooseEmpty
    \/ LoadAppend
    \/ LoadParse
    \/ LoadStage
    \/ LoadJoin
    \/ LoadReturn
    \/ FactoryCheckLoad
    \/ FactoryUncaught

\* Where load and its caller stand: every step of NextLoadTurns moves one of
\* the three.
loadPosition == <<lpc, li, fpc>>

\* The interpreter keeps running the thread that called load, and
\* random.choice returns every entry of the list again and again.
SpecLoadFair ==
    /\ InitLoadCalled
    /\ [][NextLoadTurns]_vars
    /\ WF_loadPosition(NextLoadTurns)
    /\ \A e \in Entries : SF_loadPosition(LoadChoose(e))

\* ------------------------------------------------------------------------
\* DatasetFactory.scale_coordinates
\* ------------------------------------------------------------------------
\* The quotient floored instead.
int_truedivFloor(n, d) == n \div d
\* int(n / d) for integers n and d > 0: the true quotient, cut towards zero.
int_truediv(n, d) == IF n >= 0 THEN n \div d ELSE -((-n) \div d)

\* Lines 196-203: both elements of the list are replaced in place, each from
\* its own axis, and the list is returned.
scale_coordinates(c, target, bw, bh) ==
    <<int_truediv(c[1] * target[1], bw), int_truediv(c[2] * target[2], bh)>>

Coord == (0 - MaxCoord)..MaxCoord

Dim == 1..MaxDim

\* A call of scale_coordinates on any pair, resolution and output size.
InitScale ==
    /\ InitOver({})
    /\ base_width \in Dim
    /\ base_height \in Dim
    /\ coordinates \in Coord \X Coord
    /\ target_coordinates \in Dim \X Dim
    /\ given = coordinates
    /\ scpc = "call"
    /\ BlurIdle
    /\ ReportIdle
    /\ PathIdle
    /\ BoxIdle
    /\ ParseIdle
    /\ CsvIdle
    /\ PipeIdle
    /\ nb_threads = 1

ScaleCall ==
    /\ scpc = "call"
    /\ coordinates' = scale_coordinates(coordinates, target_coordinates,
                                        base_width, base_height)
    /\ scpc' = "returned"
    /\ UNCHANGED <<loadVars, initVars, base_width, base_height,
                   target_coordinates, given, pipeVars, pureVars>>

NextScale == ScaleCall

SpecScale == InitScale /\ [][NextScale]_vars

\* ------------------------------------------------------------------------
\* DatasetFactory.get_blur_amount / apply_motion_blur
\* ------------------------------------------------------------------------
\* A fraction is a pair <<numerator, denominator>> with a positive
\* denominator; fractions are compared by cross-multiplication.
Frac(n, d) == <<n, d>>

FracEq(a, b) == a[1] * b[2] = b[1] * a[2]

FracLeq(a, b) == a[1] * b[2] <= b[1] * a[2]

\* Lines 220-227: blur_amount = variance / self.max_blur_amount; only a
\* ratio above 1 is replaced by 0.9; the value returned is 1 - blur_amount.
\* The quotient and the difference are kept as exact fractions.
get_blur_amount(variance, threshold) ==
    IF variance > threshold
    THEN Frac(1, 10)
    ELSE Frac(threshold - variance, threshold)

\* Lines 242 and 244: the literals 0.3 and 0.7, in hundredths.
SmallBlur == 30

MediumBlur == 70

\* Lines 242-247 with the two comparisons strict.
kernel_sizeStrict(a) ==
    IF a < SmallBlur THEN 3
    ELSE IF a < MediumBlur THEN 5
    ELSE 9

\* Lines 242-247: the side of the square kernel chosen from amount (in
\* hundredths).
kernel_size(a) ==
    IF a <= SmallBlur THEN 3
    ELSE IF a <= MediumBlur THEN 5
    ELSE 9

\* Lines 236-251: with no_blur the input image is returned as it came;
\* otherwise it is filtered with the identity matrix of side size divided by
\* size. The result records the image it was made from and the kernel's
\* side, None when no kernel was built.
apply_motion_blur(cv_img, a, skip) ==
    IF skip
    THEN [image |-> cv_img, kernel |-> None]
    ELSE [image |-> cv_img, kernel |-> kernel_size(a)]

InitBlur ==
    /\ InitOver({})
    /\ count = 0
    /\ ScaleIdle
    /\ ReportIdle
    /\ PathIdle
    /\ BoxIdle
    /\ ParseIdle
    /\ CsvIdle
    /\ PipeIdle
    /\ nb_threads = 1
    /\ variance_of_laplacian \in 0..MaxVariance
    /\ max_blur_amount \in 1..MaxThreshold
    /\ amount \in 0..MaxAmount
    /\ no_blur \in BOOLEAN
    /\ blur_amount = <<>>
    /\ blurred = <<>>
    /\ bpc = "get_blur_amount"

\* One call of get_blur_amount.
BlurAmountCall ==
    /\ bpc = "get_blur_amount"
    /\ blur_amount' = get_blur_amount(variance_of_laplacian, max_blur_amount)
    /\ bpc' = "apply_motion_blur"
    /\ UNCHANGED <<loadVars, initVars, scaleVars, pipeVars, reportVars,
                   pathVars, boxVars, parseVars, csvVars,
                   variance_of_laplacian, max_blur_amount, amount, no_blur,
                   blurred>>

\* One call of apply_motion_blur on the image "projection".
MotionBlurCall ==
    /\ bpc = "apply_motion_blur"
    /\ blurred' = apply_motion_blur("projection", amount, no_blur)
    /\ bpc' = "returned"
    /\ UNCHANGED <<loadVars, initVars, scaleVars, pipeVars, reportVars,
                   pathVars, boxVars, parseVars, csvVars,
                   variance_of_laplacian, max_blur_amount, blur_amount,
                   amount, no_blur>>

NextBlur == BlurAmountCall \/ MotionBlurCall

SpecBlur == InitBlur /\ [][NextBlur]_vars

\* ------------------------------------------------------------------------
\* Double-precision arithmetic of the report line (Python float)
\* ------------------------------------------------------------------------
\* A float is a record [m, e]: m is the 53-bit significand, most significant
\* bit first and equal to 1, e the power of two of that bit; zero has the
\* empty significand.
Mantissa == 53

FloatZero == [m |-> <<>>, e |-> 0]

Front(s) == SubSeq(s, 1, Len(s) - 1)

Last(s) == s[Len(s)]

RECURSIVE ToBits(_)
\* The binary digits of a natural number, none for 0.
ToBits(n) == IF n = 0 THEN <<>> ELSE Append(ToBits(n \div 2), n % 2)

RECURSIVE FromBits(_)
FromBits(b) == IF b = <<>> THEN 0 ELSE 2 * FromBits(Front(b)) + Last(b)

RECURSIVE IncBits(_)
\* The digits of the number plus one (one digit longer on overflow).
IncBits(b) ==
    IF b = <<>> THEN <<1>>
    ELSE IF Last(b) = 0 THEN Append(Front(b), 1)
    ELSE Append(IncBits(Front(b)), 0)

\* Round-to-nearest, ties to even: digits b (first digit 1, of weight 2^e,
\* more than Mantissa of them) are cut to Mantissa digits.
RoundNearestEven(b, e) ==
    LET keep == SubSeq(b, 1, Mantissa)
        guard == b[Mantissa + 1]
        sticky == \E k \in (Mantissa + 2)..Len(b) : b[k] = 1
        up == guard = 1 /\ (sticky \/ keep[Mantissa] = 1)
        inc == IncBits(keep)
    IN  IF ~up THEN [m |-> keep, e |-> e]
        ELSE IF Len(inc) > Mantissa
             THEN [m |-> SubSeq(inc, 1, Mantissa), e |-> e + 1]
             ELSE [m |-> inc, e |-> e]

RECURSIVE Normalise(_, _, _)
\* Doubles n or d until d <= n < 2 * d; e counts the power of two taken out.
Normalise(n, d, e) ==
    IF n < d THEN Normalise(2 * n, d, e - 1)
    ELSE IF n >= 2 * d THEN Normalise(n, 2 * d, e + 1)
    ELSE <<n, d, e>>

RECURSIVE DivBits(_, _, _, _)
\* Long division: n more digits of r / d (0 <= r < d) appended to acc, then
\* one digit telling whether a remainder is left.
DivBits(r, d, n, acc) ==
    IF n = 0 THEN Append(acc, IF r > 0 THEN 1 ELSE 0)
    ELSE IF 2 * r >= d THEN DivBits(2 * r - d, d, n - 1, Append(acc, 1))
    ELSE DivBits(2 * r, d, n - 1, Append(acc, 0))

\* a / b for integers a >= 0, b > 0: the quotient rounded to a float.
float_truediv(a, b) ==
    IF a = 0 THEN FloatZero
    ELSE LET norm == Normalise(a, b, 0)
         IN  RoundNearestEven(
                 DivBits(norm[1] - norm[2], norm[2], Mantissa, <<1>>),
                 norm[3])

RECURSIVE MulBits(_, _, _, _)
\* The digits of b times the small natural k, from the last digit up.
MulBits(b, k, carry, acc) ==
    IF b = <<>> THEN ToBits(carry) \o acc
    ELSE MulBits(Front(b), k, (Last(b) * k + carry) \div 2,
                 <<(Last(b) * k + carry) % 2>> \o acc)

\* x * k for a float x and an integer k >= 2: the exact product rounded.
float_mul(x, k) ==
    IF x.m = <<>> THEN FloatZero
    ELSE LET product == MulBits(x.m, k, 0, <<>>)
         IN  RoundNearestEven(product \o <<0>>,
                              x.e + Len(product) - Mantissa)

\* int(x) for a float x >= 0: the digits above the binary point.
float_int(x) ==
    IF x.m = <<>> \/ x.e < 0 THEN 0
    ELSE FromBits(SubSeq(x.m, 1, x.e + 1))

\* The percentage rounded to the nearest integer.
visibility_percentageRounded(visible, total) ==
    (visible * 100 + total \div 2) \div total

\* Lines 113-114 (145-146): int((self.visible_gates / self.count) * 100).
visibility_percentage(visible, total) ==
    float_int(float_mul(float_truediv(visible, total), 100))

\* ------------------------------------------------------------------------
\* DatasetFactory.run / run_multi_threaded / generate, Dataset.save
\* ------------------------------------------------------------------------
\* list(range(n))
range_list(n) == [k \in 1..n |-> k - 1]

\* n * l for a list l
repeat_list(n, l) == [k \in 1..(n * Len(l)) |-> l[((k - 1) % Len(l)) + 1]]

\* list(zip(a, b)): as long as the shorter of the two
zip(a, b) ==
    [k \in 1..(IF Len(a) <= Len(b) THEN Len(a) ELSE Len(b)) |-> <<a[k], b[k]>>]

\* The two lists zipped the other way round.
zipped_argsSwapped(max_, threads) ==
    zip(repeat_list(max_, range_list(threads)), range_list(max_))
\* Line 136: zip(range(max_), max_ * list(range(self.nb_threads)))
zipped_args(max_, threads) ==
    zip(range_list(max_), repeat_list(max_, range_list(threads)))


\* dataset_factory.py lines 85-90, for a construction that went on after load.
FactoryConstructed ==
    /\ fpc = "load"
    /\ lpc = "returned"
    /\ fpc' = "constructed"
    /\ base_width' = width
    /\ base_height' = height
    /\ visible_gates' = 0
    /\ UNCHANGED <<loadVars, exit_status, coordinates, target_coordinates,
                   given, scpc, mainVars, genVars, seen_visible, outVars,
                   saveVars, pureVars>>

\* Lines 99-104: run creates the save thread and one projector, starts the
\* thread and enters its loop. The thread runs Dataset.save(nb_threads).
RunStart ==
    /\ fpc = "constructed"
    /\ mpc = "idle"
    /\ strategy' = "run"
    /\ mpc' = "loop"
    /\ i' = 0
    /\ spc' = "spawn"
    /\ \E n \in Savers : nb_savers' = n
    /\ UNCHANGED <<loadVars, initVars, scaleVars, nb_threads, args, next,
                   done_calls, percentage, genVars, gateVars, outVars,
                   started, wpc, witem, pureVars>>

\* Lines 105-108: the next turn of the loop calls generate(i, projector).
RunCall ==
    /\ strategy = "run"
    /\ mpc = "loop"
    /\ i < count
    /\ gpc[1] = "idle"
    /\ gpc' = [gpc EXCEPT ![1] = "get"]
    /\ gindex' = [gindex EXCEPT ![1] = i]
    /\ gprojector' = [gprojector EXCEPT ![1] = 0]
    /\ UNCHANGED <<loadVars, initVars, scaleVars, mainVars, gread, gateVars,
                   outVars, saveVars, gbboxes, gimage,
                   pureVars>>

\* Lines 123-136: run_multi_threaded opens the pool, starts the save thread,
\* creates nb_threads projectors and zips the arguments.
ParStart ==
    /\ fpc = "constructed"
    /\ mpc = "idle"
    /\ strategy' = "run_multi_threaded"
    /\ mpc' = "pool"
    /\ args' = zipped_args(count, nb_threads)
    /\ next' = 1
    /\ spc' = "spawn"
    /\ \E n \in Savers : nb_savers' = n
    /\ UNCHANGED <<loadVars, initVars, scaleVars, nb_threads, i, done_calls,
                   percentage, genVars, gateVars, outVars, started, wpc, witem,
                   pureVars>>

\* Lines 137-138: a free pool thread takes the next item of args and calls
\* generate on it.
PoolTake(g) ==
    /\ strategy = "run_multi_threaded"
    /\ mpc = "pool"
    /\ g <= nb_threads
    /\ gpc[g] = "idle"
    /\ next <= Len(args)
    /\ gpc' = [gpc EXCEPT ![g] = "get"]
    /\ gindex' = [gindex EXCEPT ![g] = args[next][1]]
    /\ gprojector' = [gprojector EXCEPT ![g] = args[next][2]]
    /\ next' = next + 1
    /\ UNCHANGED <<loadVars, initVars, scaleVars, nb_threads, strategy, mpc,
                   i, args, done_calls, percentage, gread, gateVars, outVars,
                   saveVars, gbboxes, gimage,
                   pureVars>>

\* Lines 149-150: the blocking get on the background queue, then
\* projector.set_drone_pose: the projector now holds this call's pose.
GenGet(g) ==
    /\ gpc[g] = "get"
    /\ background_data # <<>>
    /\ background_data' = Tail(background_data)
    /\ gpc' = [gpc EXCEPT ![g] = "render"]
    /\ UNCHANGED <<listing, isdir, choice, count, lpc, files, li, not_found, annotations,
                   background_unfinished, width, height, error, initVars, scaleVars, mainVars,
                   gindex, gprojector, gread, gateVars, outVars, saveVars,
                   gbboxes, gimage,
                   pureVars>>

\* The lengths of the renderer's bounding-box list that are told apart.
BoxCounts == {0, 1}

\* Line 151: the image the renderer returns. An image is the list of what
\* was done to make it.
rendered == <<"projection">>

\* Lines 156-158: apply_motion_blur(projection, amount=get_blur_amount(...)),
\* recorded on the image.
motion_blurred(img) == Append(img, "blurred")

\* Lines 159, 229-234: add_noise, recorded on the image.
add_noise(img) == Append(img, "noised")

\* Lines 151-160: projector.generate returns its bounding boxes, an empty
\* list or not; with a visible gate the projection is blurred and noised.
GenRender(g) ==
    /\ gpc[g] = "render"
    /\ \E len_bboxes \in BoxCounts :
          LET gate_visible == len_bboxes > 0
          IN  /\ gbboxes' = [gbboxes EXCEPT ![g] = len_bboxes]
              /\ IF gate_visible
                 THEN /\ gimage' = [gimage EXCEPT ![g] =
                                       add_noise(motion_blurred(rendered))]
                      /\ gpc' = [gpc EXCEPT ![g] = "read"]
                      /\ seen_visible' = seen_visible + 1
                 ELSE /\ gimage' = [gimage EXCEPT ![g] = rendered]
                      /\ gpc' = [gpc EXCEPT ![g] = "put"]
                      /\ UNCHANGED seen_visible
    /\ UNCHANGED <<loadVars, initVars, scaleVars, mainVars, gindex,
                   gprojector, gread, visible_gates, outVars, saveVars,
                   pureVars>>

\* Line 161, "self.visible_gates += 1": the attribute is loaded ...
GenRead(g) ==
    /\ gpc[g] = "read"
    /\ gread' = [gread EXCEPT ![g] = visible_gates]
    /\ gpc' = [gpc EXCEPT ![g] = "write"]
    /\ UNCHANGED <<loadVars, initVars, scaleVars, mainVars, gindex,
                   gprojector, gateVars, outVars, saveVars, gbboxes, gimage,
                   pureVars>>

\* ... and the sum is stored back.
GenWrite(g) ==
    /\ gpc[g] = "write"
    /\ visible_gates' = gread[g] + 1
    /\ gread' = [gread EXCEPT ![g] = None]
    /\ gpc' = [gpc EXCEPT ![g] = "put"]
    /\ UNCHANGED <<loadVars, initVars, scaleVars, mainVars, gindex,
                   gprojector, seen_visible, outVars, saveVars, gbboxes, gimage,
                   pureVars>>

\* Lines 188-192: the sample is put on the generated dataset's queue under
\* the call's index, and generate returns to its caller.
GenPut(g) ==
    /\ gpc[g] = "put"
    /\ generated_data' = Append(generated_data, gindex[g])
    /\ generated_unfinished' = generated_unfinished + 1
    /\ put_count' = [put_count EXCEPT ![gindex[g]] = @ + 1]
    /\ gpc' = [gpc EXCEPT ![g] = "idle"]
    /\ gindex' = [gindex EXCEPT ![g] = None]
    /\ gprojector' = [gprojector EXCEPT ![g] = None]
    /\ gbboxes' = [gbboxes EXCEPT ![g] = None]
    /\ gimage' = [gimage EXCEPT ![g] = <<>>]
    /\ IF strategy = "run"
       THEN i' = i + 1 /\ UNCHANGED done_calls
       ELSE done_calls' = done_calls + 1 /\ UNCHANGED i
    /\ UNCHANGED <<loadVars, initVars, scaleVars, nb_threads, strategy, mpc,
                   args, next, percentage, gread, gateVars, saved, saveVars,
                   pureVars>>

\* The sentinel put while the last call of generate is still to be made.
RunSentinelEarly ==
    /\ strategy = "run"
    /\ mpc = "loop"
    /\ i >= count - 1
    /\ generated_data' = Append(generated_data, None)
    /\ generated_unfinished' = generated_unfinished + 1
    /\ put_count' = [put_count EXCEPT ![None] = @ + 1]
    /\ mpc' = "join"
    /\ UNCHANGED <<loadVars, initVars, scaleVars, nb_threads, strategy, i,
                   args, next, done_calls, percentage, genVars, gateVars,
                   saved, saveVars, pureVars>>

\* Line 110: after the loop, run puts the sentinel.
RunSentinel ==
    /\ strategy = "run"
    /\ mpc = "loop"
    /\ i >= count
    /\ generated_data' = Append(generated_data, None)
    /\ generated_unfinished' = generated_unfinished + 1
    /\ put_count' = [put_count EXCEPT ![None] = @ + 1]
    /\ mpc' = "join"
    /\ UNCHANGED <<loadVars, initVars, scaleVars, nb_threads, strategy, i,
                   args, next, done_calls, percentage, genVars, gateVars,
                   saved, saveVars, pureVars>>

\* Lines 137-142: every result of imap_unordered has arrived, the pool is
\* closed and joined, and run_multi_threaded puts the sentinel.
ParSentinel ==
    /\ strategy = "run_multi_threaded"
    /\ mpc = "pool"
    /\ done_calls = Len(args)
    /\ generated_data' = Append(generated_data, None)
    /\ generated_unfinished' = generated_unfinished + 1
    /\ put_count' = [put_count EXCEPT ![None] = @ + 1]
    /\ mpc' = "join"
    /\ UNCHANGED <<loadVars, initVars, scaleVars, nb_threads, strategy, i,
                   args, next, done_calls, percentage, genVars, gateVars,
                   saved, saveVars, pureVars>>

\* Lines 111-114 and 143-146: save_thread.join() returns once the thread
\* has ended; the destination and the percentage are printed.
RunReport ==
    /\ mpc = "join"
    /\ spc = "done"
    /\ IF count = 0
       THEN /\ mpc' = "raised"
            /\ error' = "ZeroDivisionError"
            /\ UNCHANGED percentage
       ELSE /\ mpc' = "done"
            /\ percentage' = visibility_percentage(visible_gates, count)
            /\ UNCHANGED error
    /\ UNCHANGED <<listing, isdir, choice, count, lpc, files, li, not_found, annotations,
                   background_data, background_unfinished, width, height,
                   initVars, scaleVars, nb_threads, strategy, i, args, next,
                   done_calls, genVars, gateVars, outVars, saveVars, pureVars>>

\* dataset.py lines 132-135: save starts one more daemon thread on _save_one.
SaveStart ==
    /\ spc = "spawn"
    /\ started < nb_savers
    /\ started' = started + 1
    /\ wpc' = [wpc EXCEPT ![started + 1] = "test"]
    /\ UNCHANGED <<loadVars, initVars, scaleVars, mainVars, genVars, gateVars,
                   outVars, spc, nb_savers, witem, pureVars>>

\* Line 137: self.data.join() returns when unfinished_tasks is 0, and save
\* (hence the save thread) ends.
SaveJoin ==
    /\ spc = "spawn"
    /\ started = nb_savers
    /\ generated_unfinished = 0
    /\ spc' = "done"
    /\ UNCHANGED <<loadVars, initVars, scaleVars, mainVars, genVars, gateVars,
                   outVars, nb_savers, started, wpc, witem, pureVars>>

\* Line 124: "while not self.data.empty()"; the thread ends on an empty queue.
WorkerTest(w) ==
    /\ wpc[w] = "test"
    /\ wpc' = [wpc EXCEPT ![w] = IF generated_data = <<>> THEN "exit" ELSE "get"]
    /\ UNCHANGED <<loadVars, initVars, scaleVars, mainVars, genVars, gateVars,
                   outVars, spc, nb_savers, started, witem, pureVars>>

\* Line 125: the blocking get.
WorkerGet(w) ==
    /\ wpc[w] = "get"
    /\ generated_data # <<>>
    /\ witem' = [witem EXCEPT ![w] = Head(generated_data)]
    /\ generated_data' = Tail(generated_data)
    /\ wpc' = [wpc EXCEPT ![w] = "save"]
    /\ UNCHANGED <<loadVars, initVars, scaleVars, mainVars, genVars, gateVars,
                   generated_unfinished, put_count, saved, spc, nb_savers,
                   started, pureVars>>

\* Lines 126-128: annotatedImage.image.save(<path><id>.png). On the sentinel
\* None has no attribute "image": AttributeError ends the thread.
WorkerSave(w) ==
    /\ wpc[w] = "save"
    /\ IF witem[w] = None
       THEN /\ wpc' = [wpc EXCEPT ![w] = "raised"]
            /\ UNCHANGED saved
       ELSE /\ saved' = [saved EXCEPT ![witem[w]] = @ + 1]
            /\ wpc' = [wpc EXCEPT ![w] = "task_done"]
    /\ UNCHANGED <<loadVars, initVars, scaleVars, mainVars, genVars, gateVars,
                   generated_data, generated_unfinished, put_count, spc,
                   nb_savers, started, witem, pureVars>>

\* Line 129: self.data.task_done(), then back to the loop's test.
WorkerTaskDone(w) ==
    /\ wpc[w] = "task_done"
    /\ generated_unfinished' = generated_unfinished - 1
    /\ witem' = [witem EXCEPT ![w] = None]
    /\ wpc' = [wpc EXCEPT ![w] = "test"]
    /\ UNCHANGED <<loadVars, initVars, scaleVars, mainVars, genVars, gateVars,
                   generated_data, put_count, saved, spc, nb_savers, started,
                   pureVars>>

\* A background directory, a count and a pool size; load, then a run.
Init ==
    /\ InitOver(RunEntries)
    /\ ScaleIdle
    /\ BlurIdle
    /\ ReportIdle
    /\ PathIdle
    /\ BoxIdle
    /\ ParseIdle
    /\ CsvIdle
    /\ PipeIdle
    /\ nb_threads \in 1..MaxThreads

Next ==
    \/ DatasetInit
    \/ LoadList
    \/ LoadSample
    \/ LoadParse
    \/ LoadStage
    \/ LoadJoin
    \/ LoadReturn
    \/ FactoryConstructed
    \/ RunStart
    \/ RunCall
    \/ ParStart
    \/ \E g \in GenThreads : PoolTake(g)
    \/ \E g \in GenThreads : GenGet(g)
    \/ \E g \in GenThreads : GenRender(g)
    \/ \E g \in GenThreads : GenRead(g)
    \/ \E g \in GenThreads : GenWrite(g)
    \/ \E g \in GenThreads : GenPut(g)
    \/ RunSentinel
    \/ ParSentinel
    \/ RunReport
    \/ SaveStart
    \/ SaveJoin
    \/ \E w \in Savers : WorkerTest(w)
    \/ \E w \in Savers : WorkerGet(w)
    \/ \E w \in Savers : WorkerSave(w)
    \/ \E w \in Savers : WorkerTaskDone(w)

Spec == Init /\ [][Next]_vars

\* The producing side of a run alone: load, construction, and run or
\* run_multi_threaded up to the sentinel. The persistence threads, which
\* only take items off the SampleQueue, are given no step.
NextGenerate ==
    \/ DatasetInit
    \/ LoadList
    \/ LoadSample
    \/ LoadParse
    \/ LoadStage
    \/ LoadJoin
    \/ LoadReturn
    \/ FactoryConstructed
    \/ RunStart
    \/ RunCall
    \/ ParStart
    \/ \E g \in GenThreads : PoolTake(g)
    \/ \E g \in GenThreads : GenGet(g)
    \/ \E g \in GenThreads : GenRender(g)
    \/ \E g \in GenThreads : GenRead(g)
    \/ \E g \in GenThreads : GenWrite(g)
    \/ \E g \in GenThreads : GenPut(g)
    \/ RunSentinel
    \/ ParSentinel

SpecGenerate == Init /\ [][NextGenerate]_vars

\* No load has been called.
LoadIdle ==
    /\ listing = {}
    /\ isdir = TRUE
    /\ count = 0
    /\ lpc = "uncalled"
    /\ files = <<>>
    /\ li = 0
    /\ not_found = 0
    /\ choice = "none"
    /\ annotations = <<>>
    /\ background_data = <<>>
    /\ background_unfinished = 0
    /\ width = None
    /\ height = None
    /\ error = "none"
    /\ fpc = "load"
    /\ exit_status = None

\* The report line on its own, for counts beyond those of a whole run.
InitReport ==
    /\ LoadIdle
    /\ ScaleIdle
    /\ BlurIdle
    /\ PathIdle
    /\ BoxIdle
    /\ ParseIdle
    /\ CsvIdle
    /\ PipeIdle
    /\ nb_threads = 1
    /\ rcount \in 1..MaxTotal
    /\ rvisible \in 0..rcount
    /\ rpercentage = None
    /\ rpc = "call"

\* Lines 113-114 applied to rvisible and rcount.
ReportCall ==
    /\ rpc = "call"
    /\ rpercentage' = visibility_percentage(rvisible, rcount)
    /\ rpc' = "returned"
    /\ UNCHANGED <<loadVars, initVars, scaleVars, pipeVars, blurVars,
                   pathVars, boxVars, parseVars, csvVars, rvisible,
                   rcount>>

\* A sequential run from construction to its report, with its save thread,
\* and the report line on its own.
InitVisibility == (Init /\ nb_threads = 1) \/ InitReport

NextVisibility ==
    \/ DatasetInit
    \/ LoadList
    \/ LoadSample
    \/ LoadParse
    \/ LoadStage
    \/ LoadJoin
    \/ LoadReturn
    \/ FactoryConstructed
    \/ RunStart
    \/ RunCall
    \/ \E g \in GenThreads : GenGet(g)
    \/ \E g \in GenThreads : GenRender(g)
    \/ \E g \in GenThreads : GenRead(g)
    \/ \E g \in GenThreads : GenWrite(g)
    \/ \E g \in GenThreads : GenPut(g)
    \/ RunSentinel
    \/ RunReport
    \/ SaveStart
    \/ SaveJoin
    \/ \E w \in Savers : WorkerTest(w)
    \/ \E w \in Savers : WorkerGet(w)
    \/ \E w \in Savers : WorkerSave(w)
    \/ \E w \in Savers : WorkerTaskDone(w)
    \/ ReportCall

SpecVisibility == InitVisibility /\ [][NextVisibility]_vars

\* Both strategies with a save pool of one worker: Dataset.save(1).
RunStartOneSaver == RunStart /\ nb_savers' = 1

ParStartOneSaver == ParStart /\ nb_savers' = 1

NextOneSaver ==
    \/ DatasetInit
    \/ LoadList
    \/ LoadSample
    \/ LoadParse
    \/ LoadStage
    \/ LoadJoin
    \/ LoadReturn
    \/ FactoryConstructed
    \/ RunStartOneSaver
    \/ RunCall
    \/ ParStartOneSaver
    \/ \E g \in GenThreads : PoolTake(g)
    \/ \E g \in GenThreads : GenGet(g)
    \/ \E g \in GenThreads : GenRender(g)
    \/ \E g \in GenThreads : GenRead(g)
    \/ \E g \in GenThreads : GenWrite(g)
    \/ \E g \in GenThreads : GenPut(g)
    \/ RunSentinel
    \/ ParSentinel
    \/ RunReport
    \/ SaveStart
    \/ SaveJoin
    \/ \E w \in Savers : WorkerTest(w)
    \/ \E w \in Savers : WorkerGet(w)
    \/ \E w \in Savers : WorkerSave(w)
    \/ \E w \in Savers : WorkerTaskDone(w)

SpecOneSaver == Init /\ [][NextOneSaver]_vars

\* ------------------------------------------------------------------------
\* DatasetFactory.generate: the loop over the bounding boxes
\* ------------------------------------------------------------------------
\* The keys of a bounding box, a dict.
BoxKeys == {"class_id", "min", "max", "normal"}

\* The orders in which a box's items() may come.
KeyOrders == Shuffles(BoxKeys)

\* The class ids told apart; 2 is the class whose normal is not scaled.
ClassIds == {1, 2}

\* A box as the renderer returns it: each of its four points is a list of
\* its own.
Box(class_id, v) ==
    [class_id |-> class_id,
     min |-> <<v, v + 1>>,
     max |-> <<v + 2, v + 3>>,
     normal |-> [origin |-> <<v + 1, v + 2>>, end |-> <<v + 3, v + 1>>]]

Boxes == {Box(c, v) : c \in ClassIds, v \in 0..MaxBoxCoord}

\* The lists of up to MaxBoxes boxes.
BoxLists == UNION {[1..n -> Boxes] : n \in 0..MaxBoxes}

\* The resolutions load can set: the sizes of the background images.
BaseSizes == {image_size(f) : f \in {e \in Entries : isfile(e)}}

\* Lines 170-176 with the normal scaled whatever the class.
scale_keyAnyClass(bbox, key, target, bw, bh) ==
    IF key \in {"min", "max"}
    THEN [bbox EXCEPT ![key] = scale_coordinates(bbox[key], target, bw, bh)]
    ELSE IF key = "normal"
    THEN [bbox EXCEPT !["normal"] =
             [origin |-> scale_coordinates(bbox["normal"].origin,
                                           target, bw, bh),
              end |-> scale_coordinates(bbox["normal"].end, target, bw, bh)]]
    ELSE bbox

\* Lines 170-176: one turn of "for key, val in bbox.items()". scaled_bbox is
\* bbox itself (line 168), so the turn's effect is the box after it.
scale_key(bbox, key, target, bw, bh) ==
    IF key \in {"min", "max"}
    THEN [bbox EXCEPT ![key] = scale_coordinates(bbox[key], target, bw, bh)]
    ELSE IF key = "normal" /\ bbox["class_id"] # 2
    THEN [bbox EXCEPT !["normal"] =
             [origin |-> scale_coordinates(bbox["normal"].origin,
                                           target, bw, bh),
              end |-> scale_coordinates(bbox["normal"].end, target, bw, bh)]]
    ELSE bbox

RECURSIVE scale_bbox(_, _, _, _, _)
\* Lines 169-176: the turns of the inner loop, in the order of keys.
scale_bbox(bbox, keys, target, bw, bh) ==
    IF keys = <<>> THEN bbox
    ELSE scale_bbox(scale_key(bbox, Head(keys), target, bw, bh),
                    Tail(keys), target, bw, bh)

\* Lines 166-177: each box in turn is scaled and appended.
scale_bboxes(list, keys, target, bw, bh) ==
    [k \in 1..Len(list) |-> scale_bbox(list[k], keys, target, bw, bh)]

InitBoxes ==
    /\ LoadIdle
    /\ BlurIdle
    /\ ReportIdle
    /\ PathIdle
    /\ ParseIdle
    /\ CsvIdle
    /\ PipeIdle
    /\ nb_threads = 1
    /\ \E size \in BaseSizes : base_width = size[1] /\ base_height = size[2]
    /\ target_coordinates \in Dim \X Dim
    /\ coordinates = <<>>
    /\ given = <<>>
    /\ scpc = "idle"
    /\ given_bboxes \in BoxLists
    /\ bboxes = given_bboxes
    /\ key_order \in KeyOrders
    /\ scaled_bboxes = <<>>
    /\ bxpc = "loop"

\* Lines 166-177 on the renderer's list, output.size being
\* target_coordinates. The boxes appended are the renderer's own dicts, so
\* its list shows the scaling too.
ScaleBoxesCall ==
    /\ bxpc = "loop"
    /\ scaled_bboxes' = scale_bboxes(bboxes, key_order, target_coordinates,
                                     base_width, base_height)
    /\ bboxes' = scaled_bboxes'
    /\ bxpc' = "scaled"
    /\ UNCHANGED <<loadVars, initVars, scaleVars, pipeVars, blurVars,
                   reportVars, pathVars, parseVars, csvVars, given_bboxes,
                   key_order>>

NextBoxes == ScaleBoxesCall

SpecBoxes == InitBoxes /\ [][NextBoxes]_vars

\* ------------------------------------------------------------------------
\* Dataset._save_one: the path a sample is written to
\* ------------------------------------------------------------------------
\* Strings are sequences of characters.
Digits == <<"0", "1", "2", "3", "4", "5", "6", "7", "8", "9">>

RECURSIVE str(_)
\* str(n) for a natural number n
str(n) ==
    IF n < 10 THEN <<Digits[n + 1]>>
    ELSE Append(str(n \div 10), Digits[(n % 10) + 1])

\* '.png'
png == <<".", "p", "n", "g">>

\* os.sep
sep == "/"

\* Lines 126-128: os.path.join(self.path + str(annotatedImage.id) + '.png').
\* The three strings are concatenated and os.path.join of a single argument
\* returns it as it is.
save_path(path, id) == path \o str(id) \o png

\* The destination directories tried: with and without a trailing separator.
Destinations ==
    { <<"d">>, <<"d", sep>>, <<"a", sep, "b">>, <<"a", sep, "b", sep>> }

InitSavePath ==
    /\ LoadIdle
    /\ ScaleIdle
    /\ BlurIdle
    /\ ReportIdle
    /\ BoxIdle
    /\ ParseIdle
    /\ CsvIdle
    /\ PipeIdle
    /\ nb_threads = 1
    /\ save_dest \in Destinations
    /\ save_id \in 0..MaxId
    /\ save_written = <<>>
    /\ svpc = "save"

\* One pass of lines 126-128 for the sample save_id.
SavePathCall ==
    /\ svpc = "save"
    /\ save_written' = save_path(save_dest, save_id)
    /\ svpc' = "written"
    /\ UNCHANGED <<loadVars, initVars, scaleVars, pipeVars, blurVars,
                   reportVars, boxVars, parseVars, csvVars, save_dest,
                   save_id>>

NextSavePath == SavePathCall

SpecSavePath == InitSavePath /\ [][NextSavePath]_vars

\* ------------------------------------------------------------------------
\* Dataset.parse_annotations on the text of a file
\* ------------------------------------------------------------------------
\* A line of text is a sequence of characters.
comma == ","

newline == "\n"

\* The characters str.strip() and float() drop at both ends.
Whitespace == {" ", newline}

RECURSIVE split(_, _)
\* line.split(','): the pieces between the delimiters, in order
split(s, d) ==
    IF \A k \in 1..Len(s) : s[k] # d THEN <<s>>
    ELSE LET k == CHOOSE k \in 1..Len(s) :
                      s[k] = d /\ \A j \in 1..(k - 1) : s[j] # d
         IN  <<SubSeq(s, 1, k - 1)>> \o split(SubSeq(s, k + 1, Len(s)), d)

RECURSIVE strip(_)
\* items[0].strip()
strip(s) ==
    IF s = <<>> THEN s
    ELSE IF Head(s) \in Whitespace THEN strip(Tail(s))
    ELSE IF Last(s) \in Whitespace THEN strip(Front(s))
    ELSE s

RECURSIVE decimal(_)
\* The value of a non-empty string of decimal digits.
decimal(t) ==
    LET digit(c) == (CHOOSE k \in 1..10 : Digits[k] = c) - 1
    IN  IF Len(t) = 1 THEN digit(t[1])
        ELSE 10 * decimal(Front(t)) + digit(Last(t))

\* float(x) for a field holding a natural number: the whitespace around the
\* digits is dropped.
float(x) == decimal(strip(x))

\* Lines 73-79 up to the constructor: the first line is read and never
\* split; every later line is split at the commas, items[0] is stripped
\* and every item from items[1] on is converted with float.
read_lines(text) ==
    [k \in 1..Len(text) |->
        IF k = 1 THEN [frame |-> text[1], values |-> <<>>]
        ELSE LET items == split(text[k], comma)
             IN  [frame  |-> strip(items[1]),
                  values |-> [j \in 1..(Len(items) - 1) |-> float(items[j + 1])]]]

\* The frame names written to the files tried.
FrameNames == { <<"a">>, <<"b">> }

\* How a line is laid out: no blank at all, a blank after every comma, or
\* blanks around the frame name as well.
Layouts == {"plain", "spaced", "padded"}

\* The rows the files are written from: field j of a row holds v + j.
Rows == [name : FrameNames, layout : Layouts, v : 0..MaxField]

RECURSIVE write_fields(_, _, _)
\* Fields j..7 of a row, each after its comma.
write_fields(row, j, gap) ==
    IF j > 7 THEN <<>>
    ELSE <<comma>> \o gap \o str(row.v + j) \o write_fields(row, j + 1, gap)

\* The line 'filename, tx, ty, tz, qx, qy, qz, qw' of a row.
write_line(row) ==
    LET gap  == IF row.layout = "plain" THEN <<>> ELSE <<" ">>
        name == IF row.layout = "padded" THEN <<" ">> \o row.name \o <<" ">>
                ELSE row.name
    IN  name \o write_fields(row, 1, gap) \o <<newline>>

\* The first lines tried: the header the extraction utility writes, and a
\* line that reads as a row.
header ==
    << "f", "r", "a", "m", "e", comma,
       "t", "r", "a", "n", "s", "l", "a", "t", "i", "o", "n", "_", "x", comma,
       "t", "r", "a", "n", "s", "l", "a", "t", "i", "o", "n", "_", "y", comma,
       "t", "r", "a", "n", "s", "l", "a", "t", "i", "o", "n", "_", "z", comma,
       "r", "o", "t", "a", "t", "i", "o", "n", "_", "x", comma,
       "r", "o", "t", "a", "t", "i", "o", "n", "_", "y", comma,
       "r", "o", "t", "a", "t", "i", "o", "n", "_", "z", comma,
       "r", "o", "t", "a", "t", "i", "o", "n", "_", "w", comma,
       "t", "i", "m", "e", "s", "t", "a", "m", "p", newline >>

FirstLines ==
    { header, write_line([name |-> <<"a">>, layout |-> "plain", v |-> MaxField]) }

RowLists == UNION { [1..n -> Rows] : n \in 0..MaxLines }

InitParse ==
    /\ LoadIdle
    /\ ScaleIdle
    /\ BlurIdle
    /\ ReportIdle
    /\ PathIdle
    /\ BoxIdle
    /\ CsvIdle
    /\ PipeIdle
    /\ nb_threads = 1
    /\ file_rows \in RowLists
    /\ \E first \in FirstLines :
          file_lines = <<first>> \o [k \in 1..Len(file_rows) |-> write_line(file_rows[k])]
    /\ parsed = <<>>
    /\ papc = "parse"

\* One call of parse_annotations on the file.
ParseCall ==
    /\ papc = "parse"
    /\ parsed' = parse_annotations(read_lines(file_lines))
    /\ papc' = "parsed"
    /\ UNCHANGED <<loadVars, initVars, scaleVars, pipeVars, blurVars,
                   reportVars, pathVars, boxVars, csvVars, file_rows,
                   file_lines>>

NextParse == ParseCall

SpecParse == InitParse /\ [][NextParse]_vars

\* ------------------------------------------------------------------------
\* FramePoseExtractor._write_csv (utils/extract_frame_pose.py)
\* ------------------------------------------------------------------------
TIME_STAMP_MAX_DIFF == 5

\* The divisor of line 152: nanoseconds in a millisecond.
NsPerMs == 1000000

\* The timestamps tried are 2.5 ms apart, in nanoseconds as lines 99 and 121
\* compute them.
Tick == 2500000

Stamps == {k * Tick : k \in 0..MaxTick}

\* The messages of a topic in the order they were recorded: an image or a
\* pose is known by its timestamp, its name being made of it.
Recorded ==
    {s \in UNION {[1..n -> Stamps] : n \in 0..(MaxTick + 1)} :
        \A k \in 1..(Len(s) - 1) : s[k] < s[k + 1]}

\* Lines 142-143: the first and the last key of self.images are deleted.
cropped(imgs) == SubSeq(imgs, 2, Len(imgs) - 1)

RECURSIVE write_rows(_, _)
\* Lines 145-174: for each image, the first pose of self.annotations that is
\* later than the image ends the search; the pose before it is written when
\* the image is within TIME_STAMP_MAX_DIFF of it, else the later pose is;
\* self.annotations is then cut to what follows the later pose.
write_rows(imgs, anns) ==
    IF imgs = <<>> THEN <<>>
    ELSE LET img_timestamp == Head(imgs)
             later == {k \in 1..Len(anns) : anns[k] > img_timestamp}
         IN  IF later = {} THEN write_rows(Tail(imgs), anns)
             ELSE LET k == CHOOSE k \in later : \A j \in later : k <= j
                      pose == anns[k]
                      chosen ==
                          IF k > 1
                          THEN LET prev_pose == anns[k - 1]
                               IN  IF (img_timestamp - prev_pose) \div NsPerMs
                                          <= TIME_STAMP_MAX_DIFF
                                   THEN prev_pose
                                   ELSE pose
                          ELSE pose
                  IN  <<[frame |-> img_timestamp, pose |-> chosen]>>
                          \o write_rows(Tail(imgs), SubSeq(anns, k + 1, Len(anns)))

InitWriteCsv ==
    /\ LoadIdle
    /\ ScaleIdle
    /\ BlurIdle
    /\ ReportIdle
    /\ PathIdle
    /\ BoxIdle
    /\ ParseIdle
    /\ PipeIdle
    /\ nb_threads = 1
    /\ images \in Recorded
    /\ poses \in Recorded
    /\ csv = <<>>
    /\ csv_error = None
    /\ cvpc = "write"

\* One call of _write_csv. With fewer than two images one of the two
\* deletions indexes an empty list of keys.
WriteCsvCall ==
    /\ cvpc = "write"
    /\ IF Len(images) < 2
       THEN /\ csv_error' = "IndexError"
            /\ cvpc' = "raised"
            /\ UNCHANGED csv
       ELSE /\ csv' = write_rows(cropped(images), poses)
            /\ cvpc' = "written"
            /\ UNCHANGED csv_error
    /\ UNCHANGED <<loadVars, initVars, scaleVars, pipeVars, blurVars,
                   reportVars, pathVars, boxVars, parseVars, images, poses>>

NextWriteCsv == WriteCsvCall

SpecWriteCsv == InitWriteCsv /\ [][NextWriteCsv]_vars

\* ------------------------------------------------------------------------
\* Properties of Dataset.load and of the construction
\* ------------------------------------------------------------------------
LoadOver == lpc \in {"report", "returned"}

\* The directory's files that load may stage or count.
EligibleFiles == {f \in listing : isfile(f) /\ f # "annotations.csv"}

Annotated == DOMAIN parse_annotations(annotations_file)

\* C4: when load returns, the SourceQueue holds at least count entries and
\* every staged entry carries the (non-null) pose of its file in the
\* annotation mapping.
C4_StagedAtLeastCount ==
    LoadOver =>
        /\ Len(background_data) >= count
        /\ \A k \in 1..Len(background_data) :
              LET e == background_data[k]
              IN  /\ e.file[2] \in Annotated
                  /\ e.annotations = parse_annotations(annotations_file)[e.file[2]]

\* C5: after load no staged entry has a filename absent from the mapping,
\* the annotations file is not staged, and the count that load reports is
\* the number of eligible directory files absent from the mapping.
C5_NotFoundIsAbsentFiles ==
    /\ LoadOver =>
          \A k \in 1..Len(background_data) :
              /\ background_data[k].file[2] \in Annotated
              /\ background_data[k].file # annotations_path
    /\ lpc = "report" =>
          not_found = Cardinality(EligibleFiles \ Annotated)

\* C14: when the directory holds fewer usable files than count, the
\* annotations file is there and every regular file other than it has an
\* annotation row (at least one such file being there), load returns with
\* at least count staged entries, each of them one of the usable files.
C14_SampledWithReplacement ==
    (/\ LoadOver
     /\ "annotations.csv" \in listing
     /\ EligibleFiles # {}
     /\ EligibleFiles \subseteq Annotated
     /\ Cardinality(EligibleFiles) < count) =>
        /\ Len(background_data) >= count
        /\ \A k \in 1..Len(background_data) :
              background_data[k].file[2] \in EligibleFiles

\* C9: construction ends with exit status 1 when load fails and only then;
\* when load returns, construction goes on.
C9_ExitOnlyWhenLoadFails ==
    /\ (fpc # "load" /\ lpc = "raised") => exit_status = 1
    /\ (fpc # "load" /\ lpc = "returned") =>
          (exit_status # 1 /\ fpc = "constructed")

\* ------------------------------------------------------------------------
\* Properties of the run
\* ------------------------------------------------------------------------
\* Every call of generate has returned and the sentinel has been put.
SentinelPut == mpc \in {"join", "done", "raised"}

C10_ScaleIsFloor ==
    scpc = "returned" =>
        /\ coordinates[1] = (given[1] * target_coordinates[1]) \div base_width
        /\ coordinates[2] = (given[2] * target_coordinates[2]) \div base_height

\* r is q cut towards zero, q being the exact quotient n / d.
CutTowardsZero(r, n, d) ==
    /\ n >= 0 => (r * d <= n /\ n < (r + 1) * d)
    /\ n < 0  => (r * d >= n /\ n > (r - 1) * d)

\* C10 amended: each axis is scaled independently, the result is the scaled
\* value cut towards zero (its floor when the value is not negative), and
\* the mapping is monotonic.
C10_ScaleTruncates ==
    scpc = "returned" =>
        /\ CutTowardsZero(coordinates[1], given[1] * target_coordinates[1], base_width)
        /\ CutTowardsZero(coordinates[2], given[2] * target_coordinates[2], base_height)
        /\ given[1] >= 0 =>
              coordinates[1] = (given[1] * target_coordinates[1]) \div base_width
        /\ given[2] >= 0 =>
              coordinates[2] = (given[2] * target_coordinates[2]) \div base_height
        /\ \A x \in Coord :
              LET other == scale_coordinates(<<x, given[2]>>, target_coordinates,
                                             base_width, base_height)
              IN  /\ other[2] = coordinates[2]
                  /\ x <= given[1] => other[1] <= coordinates[1]
                  /\ x >= given[1] => other[1] >= coordinates[1]
        /\ \A y \in Coord :
              LET other == scale_coordinates(<<given[1], y>>, target_coordinates,
                                             base_width, base_height)
              IN  /\ other[1] = coordinates[1]
                  /\ y <= given[2] => other[2] <= coordinates[2]
                  /\ y >= given[2] => other[2] >= coordinates[2]

\* A negative coordinate whose scaled value is not an integer has been scaled.
C10_Witness ==
    /\ scpc = "returned"
    /\ given[1] < 0
    /\ (given[1] * target_coordinates[1]) % base_width # 0
    /\ target_coordinates[1] # target_coordinates[2]

\* 1 - min(variance / threshold, 0.9) as a fraction.
ClampedBlurAmount(variance, threshold) ==
    IF 10 * variance > 9 * threshold
    THEN Frac(1, 10)
    ELSE Frac(threshold - variance, threshold)

\* C11: get_blur_amount returns 1 - min(variance / threshold, 0.9), a value
\* between 0.1 and 1.0, also for a ratio above 0.9 and at most 1.
C11_BlurAmountClamped ==
    bpc \in {"apply_motion_blur", "returned"} =>
        /\ FracEq(blur_amount,
                  ClampedBlurAmount(variance_of_laplacian,
                                    max_blur_amount))
        /\ FracLeq(Frac(1, 10), blur_amount)
        /\ FracLeq(blur_amount, Frac(1, 1))

\* C12: apply_motion_blur picks the kernel of side 3 for amount <= 0.3, of
\* side 5 for 0.3 < amount <= 0.7 and of side 9 above 0.7; with no_blur it
\* builds no kernel and returns its input image.
C12_KernelThresholds ==
    bpc = "returned" =>
        /\ blurred.image = "projection"
        /\ no_blur => blurred.kernel = None
        /\ ~no_blur =>
            /\ blurred.kernel = 3 <=> amount <= SmallBlur
            /\ blurred.kernel = 5 <=>
                   (amount > SmallBlur /\ amount <= MediumBlur)
            /\ blurred.kernel = 9 <=> amount > MediumBlur

C12_Witness ==
    /\ bpc = "returned"
    /\ ~no_blur
    /\ amount = MediumBlur
    /\ blurred.kernel = 5

\* The generate calls that have returned, and those that have been entered.
Completed == IF strategy = "run" THEN i ELSE done_calls

Entered == Completed + Cardinality({g \in GenThreads : gpc[g] # "idle"})

\* The percentage cut to an integer.
Truncated(visible, total) == (visible * 100) \div total

\* C13 as stated: for count >= 1 the visible-gate counter never exceeds the
\* number of generate calls completed so far, nor count, and the percentage
\* reported is the truncation of visible_gates * 100 / count, within 0..100.
C13_CounterWithinCompleted ==
    /\ (count >= 1 /\ fpc = "constructed") =>
        /\ visible_gates <= Completed
        /\ visible_gates <= count
    /\ (count >= 1 /\ mpc = "done") =>
        /\ percentage = Truncated(visible_gates, count)
        /\ percentage \in 0..100
    /\ rpc = "returned" =>
        /\ rpercentage = Truncated(rvisible, rcount)
        /\ rpercentage \in 0..100

\* The percentage p printed for v visible gates of c: the truncation, or one
\* less where v * 100 / c is a whole number.
TruncatedOrJustBelow(p, v, c) ==
    /\ p \in 0..100
    /\ \/ p = Truncated(v, c)
       \/ p = Truncated(v, c) - 1 /\ (v * 100) % c = 0

\* C13: for count >= 1 the visible-gate counter never exceeds the number of
\* generate calls entered so far, nor count, and the percentage reported is
\* within 0..100 and is the truncation of visible_gates * 100 / count, or
\* one less where that quotient is a whole number.
C13_CounterWithinEntered ==
    /\ (count >= 1 /\ fpc = "constructed") =>
        /\ visible_gates <= Entered
        /\ visible_gates <= count
    /\ (count >= 1 /\ mpc = "done") =>
        TruncatedOrJustBelow(percentage, visible_gates, count)
    /\ rpc = "returned" =>
        TruncatedOrJustBelow(rpercentage, rvisible, rcount)

C13_Witness ==
    /\ mpc = "done"
    /\ count = MaxCount
    /\ visible_gates = 2
    /\ percentage = Truncated(2, MaxCount)

RECURSIVE WithoutTrailingSep(_)
\* A directory path with its trailing separators taken off.
WithoutTrailingSep(path) ==
    IF path # <<>> /\ path[Len(path)] = sep
    THEN WithoutTrailingSep(SubSeq(path, 1, Len(path) - 1))
    ELSE path

\* <destination>/<i>.png
InDestination(path, id) ==
    WithoutTrailingSep(path) \o <<sep>> \o str(id) \o png

\* C17: for every destination, with or without a trailing separator, and
\* every id i the sample is written to <destination>/<i>.png, and no other
\* id is written to that path.
C17_WrittenInsideDestination ==
    svpc = "written" =>
        /\ save_written = InDestination(save_dest, save_id)
        /\ \A other \in 0..MaxId :
              other # save_id => save_path(save_dest, other) # save_written

ScaledOnce(p) ==
    scale_coordinates(p, target_coordinates, base_width, base_height)

\* C19: for every box of the renderer's list the loop scales min and max
\* once each, scales the normal's origin and end once each when class_id is
\* not 2, leaves the normal as it was when class_id is 2 and leaves
\* class_id and the set of keys as they were; the scaled list has the
\* length and the order of the renderer's list.
C19_BoxesScaledOnce ==
    bxpc = "scaled" =>
        /\ Len(scaled_bboxes) = Len(given_bboxes)
        /\ \A k \in 1..Len(given_bboxes) :
              LET before == given_bboxes[k]
                  after == scaled_bboxes[k]
              IN  /\ DOMAIN after = DOMAIN before
                  /\ after.class_id = before.class_id
                  /\ after.min = ScaledOnce(before.min)
                  /\ after.max = ScaledOnce(before.max)
                  /\ before.class_id # 2 =>
                        /\ after.normal.origin = ScaledOnce(before.normal.origin)
                        /\ after.normal.end = ScaledOnce(before.normal.end)
                  /\ before.class_id = 2 => after.normal = before.normal

\* Two boxes, the first of class 2, with an output size that moves the
\* second box's normal.
C19_Witness ==
    /\ bxpc = "scaled"
    /\ Len(given_bboxes) = 2
    /\ given_bboxes[1].class_id = 2
    /\ given_bboxes[2].class_id # 2
    /\ scaled_bboxes[2].normal # given_bboxes[2].normal
    /\ ScaledOnce(ScaledOnce(given_bboxes[2].min)) # scaled_bboxes[2].min

\* C20: a Dataset constructed on a path that is no directory raises with no
\* queue made and no resolution set; load with an annotations path that
\* names no file raises 'Annotations file not found' whatever the directory
\* holds and whatever count is, with the SourceQueue empty and the
\* resolution unset.
C20_SetupErrorsRaised ==
    /\ (~isdir /\ lpc # "init") =>
        /\ lpc = "raised"
        /\ error = "Dataset directory not found"
        /\ background_data = None
        /\ width = None /\ height = None
    /\ (isdir /\ "annotations.csv" \notin listing
              /\ lpc \notin {"init", "listdir", "sample"}) =>
        /\ lpc = "raised"
        /\ error = "Annotations file not found"
        /\ background_data = <<>>
        /\ width = None /\ height = None

\* The entry a row stands for: fields 1-3 and fields 4-7.
RowEntry(row) ==
    [translation |-> <<row.v + 1, row.v + 2, row.v + 3>>,
     orientation |-> <<row.v + 4, row.v + 5, row.v + 6, row.v + 7>>]

\* The last row of the file that carries the name n.
LastRow(n) ==
    file_rows[CHOOSE k \in 1..Len(file_rows) :
                 /\ file_rows[k].name = n
                 /\ \A j \in (k + 1)..Len(file_rows) : file_rows[j].name # n]

\* C21: parse_annotations never turns the first line of the file into an
\* entry; for a header followed by well-formed lines the keys of the mapping
\* returned are exactly the distinct stripped filenames of the later lines,
\* each mapped to the translation of fields 1-3 and the orientation of the
\* four fields 4-7 of the last line that carries the filename.
C21_ParsedRows ==
    papc = "parsed" =>
        /\ DOMAIN parsed = {file_rows[k].name : k \in 1..Len(file_rows)}
        /\ \A n \in DOMAIN parsed : parsed[n] = RowEntry(LastRow(n))

\* A file whose first line reads as a row of "a", followed by two rows of
\* "b" laid out differently and holding different numbers, has been parsed.
C21_Witness ==
    /\ papc = "parsed"
    /\ file_lines[1] # header
    /\ Len(file_rows) = 2
    /\ file_rows[1].name = <<"b">>
    /\ file_rows[2].name = <<"b">>
    /\ file_rows[1].layout = "plain"
    /\ file_rows[2].layout = "padded"
    /\ file_rows[1].v # file_rows[2].v
    /\ file_rows[2].v = MaxField

\* The Dataset object exists: its constructor has returned.
Constructed == isdir /\ lpc # "init"

\* The resolution is set to the size of the entry at the head of the queue.
ResolutionOfFirst ==
    /\ width = image_size(background_data[1].file[2])[1]
    /\ height = image_size(background_data[1].file[2])[2]

Apart(a, b) == IF a >= b THEN a - b ELSE b - a

\* The pose is within TIME_STAMP_MAX_DIFF milliseconds of the image.
InWindow(img, pose) == Apart(img, pose) <= TIME_STAMP_MAX_DIFF * NsPerMs

\* The rows written for an image.
RowsOf(img) == {k \in 1..Len(csv) : csv[k].frame = img}

\* C23: in _write_csv the first and the last recorded image get no row,
\* every other image gets at most one row, every row written pairs the image
\* with the recorded pose nearest to it in time, which is within 5 ms of it,
\* and an image with no pose inside that window gets no row.
C23_RowsPairNearestInWindow ==
    cvpc = "written" =>
        /\ RowsOf(images[1]) = {}
        /\ RowsOf(images[Len(images)]) = {}
        /\ \A n \in 1..Len(images) : Cardinality(RowsOf(images[n])) <= 1
        /\ \A k \in 1..Len(csv) :
              /\ \E n \in 2..(Len(images) - 1) : images[n] = csv[k].frame
              /\ \E p \in 1..Len(poses) : poses[p] = csv[k].pose
              /\ InWindow(csv[k].frame, csv[k].pose)
              /\ \A p \in 1..Len(poses) :
                    Apart(csv[k].frame, csv[k].pose) <= Apart(csv[k].frame, poses[p])
        /\ \A n \in 2..(Len(images) - 1) :
              (\A p \in 1..Len(poses) : ~ InWindow(images[n], poses[p]))
                  => RowsOf(images[n]) = {}

\* load has ended: it has returned or it has raised.
LoadEnded == lpc \in {"returned", "raised"}

\* C24: Dataset.load terminates for every directory listing and every
\* count >= 0, every listed entry being chosen again and again by the
\* sampling loop: also when the directory is empty or holds only the
\* annotations file and non-regular entries.
C24_LoadTerminates == <>LoadEnded

====
